---- MODULE Spec2Model ----
(***************************************************************************)
(* A model of four programs of the repository:                             *)
(*   - the batched client  Database            (client/src/database.rs)    *)
(*   - the region entry    RegionServerRequestHandler                      *)
(*                                     (servers/src/grpc/region_server.rs) *)
(*   - the query handlers  SqlQueryHandler / GrpcQueryHandler              *)
(*                                     (servers/tests/mod.rs)              *)
(*   - the standalone start  Standalone::execute                           *)
(*                                     (cmd/src/subcmd/standalone.rs)      *)
(* They share no state: each has its own next-state relation and its own   *)
(* specification; Spec is their interleaving.                              *)
(***************************************************************************)
EXTENDS Integers, Sequences, FiniteSets, TLC

\* ------------------------------------------------------------------ bounds

\* Largest batch handed to Database::objects.
MaxExprs == 3
\* Region requests in flight at once.
NumReq == 2
\* Longest SQL text (in tokens) handed to the query handlers.
MaxTextLen == 3

\* --------------------------------------------------------------- constants

\* database.rs:14
PROTOCOL_VERSION == 1

\* ----------------------------------------------------------------- helpers

\* Option<T>
None == [some |-> FALSE]
Some(x) == [some |-> TRUE, v |-> x]

\* Result<T, E>, and a panic (unwrap / unimplemented!) that unwinds the call.
Ok(x) == [tag |-> "Ok", val |-> x]
Err(e) == [tag |-> "Err", err |-> e]
Panic == [tag |-> "Panic"]

\* The value nothing has been written to yet.
Nil == [nil |-> TRUE]

\* ================================================================== state

\* The client: one call of a Database operation.
VARIABLES
    cpc,        \* where the Database call is: "idle", "sent" (awaiting the transport), "done"
    cop,        \* the operation called: "none", "insert", "select", "objects"
    cexprs,     \* the expressions the caller handed to objects, in the caller's order
    cwire,      \* every DatabaseRequest put on the transport by this call
    canswer,    \* server side: canswer[i] is the result produced for request i, Nil while pending
    corder,     \* server side: the indices in the order they completed
    cresp,      \* what the transport call returned to the client
    cobj,       \* what Database::objects returned
    cout,       \* what the called operation returned to its caller
    cdecoded    \* whether select ran the decoder on a payload

cvars == <<cpc, cop, cexprs, cwire, canswer, corder, cresp, cobj, cout, cdecoded>>

\* The region entry: NumReq requests, each handled once.
VARIABLES
    rreq,        \* rreq[r]: the RegionRequest received, Nil before
    rpc,         \* rpc[r]: the caller's future: "idle", "awaiting", "returned", "dropped"
    task,        \* task[r]: the spawned task: "none", "spawned", "running", "done", "panicked"
    taskScope,   \* taskScope[r]: the trace id the task's scope was given, 0 before
    traceSeen,   \* traceSeen[r]: the trace id the handler invocation observed, 0 before
    invoked,     \* invoked[r]: how often the handler was invoked for r (the probe)
    handlerVal,  \* handlerVal[r]: the value the handler produced
    taskOut,     \* taskOut[r]: the value the task's future resolved to
    rlogs,       \* rlogs[r]: the levels of the log entries emitted for r
    rout         \* rout[r]: what handle returned to its caller

rvars == <<rreq, rpc, task, taskScope, traceSeen, invoked, handlerVal, taskOut, rlogs, rout>>

\* The query handlers: one call of a handler of the instance.
VARIABLES
    qpc,        \* where the query call is: "idle", "handler" (inside the text handler), "done"
    qreq,       \* the request handed to the handler called
    qarg,       \* the argument do_query handed to the text handler, Nil before
    qstmts,     \* the statements the text handler found in the query text
    qresults,   \* the text handler's result sequence so far, one element per statement
    qevents,    \* the calls made on the query engine, in order
    qout        \* what the handler called returned

qvars == <<qpc, qreq, qarg, qstmts, qresults, qevents, qout>>

\* The cmd crate. One run of Standalone::execute:
VARIABLES
    epc,        \* where execute is: "idle", "running", "done"
    eself,      \* the Standalone command execute is called on, Nil before
    eopts,      \* the MixOptions execute is given, Nil before
    ecalls,     \* the calls execute has made, in order, each with its argument and outcome
    eout,       \* what execute returned
    \* one run of the engram binary's main
    mpc,        \* where main is: "idle", "loaded", "standalone", "repl", "done"
    mcmd,       \* the parsed command, Nil before
    mlayered,   \* what load_layered_options returned to its load_options, Nil if not called
    mopts,      \* what Commands::load_options returned, Nil before
    mout,       \* what main returned, Nil before
    \* one run of the earlier standalone command: load_options, build, Instance
    opc,        \* where the run is: "idle", "loaded", "built", "starting", "started",
                \* "stopping", "stopped", "done"
    ocmd,       \* the Standalone command of the run, Nil before
    olayered,   \* what load_layered_options returned to its load_options, Nil before
    oopts,      \* what its load_options returned, Nil before
    obuilt,     \* what its build returned, Nil before
    ipos,       \* how many calls the running start or stop has made
    icalls,     \* the calls start and stop have made on the Instance, in order
    istart,     \* what Instance::start returned, Nil before
    istop       \* what Instance::stop returned, Nil before

evars == <<epc, eself, eopts, ecalls, eout>>

mvars == <<mpc, mcmd, mlayered, mopts, mout>>

ovars == <<opc, ocmd, olayered, oopts, obuilt, ipos, icalls, istart, istop>>

svars == <<evars, mvars, ovars>>

vars == <<cvars, rvars, qvars, svars>>

\* ================================================================= client

DbName == "db"

\* common_error::StatusCode::is_success: only the success code 0 is a success.
is_success(code) == code = 0

\* The result headers a peer may send: absent, success, and failures that differ
\* in code and in message.
ResultHeaders ==
    { None,
      Some([code |-> 0, err_msg |-> ""]),
      Some([code |-> 1001, err_msg |-> "unsupported"]),
      Some([code |-> 1003, err_msg |-> "internal"]),
      Some([code |-> 1003, err_msg |-> "disk full"]) }

\* raw_data of a Select payload: a byte string.  <<8, n>> is the encoding of a
\* SelectResult of n rows; anything else is malformed.
RawDatas == { <<8, 1>>, <<8, 2>>, <<7>>, <<>> }

ResultPayloads ==
    { None, Some([variant |-> "Mutate", success |-> 1]) }
    \cup { Some([variant |-> "Select", raw_data |-> d]) : d \in RawDatas }

\* api::v1::ObjectResult
ObjectResults == [header : ResultHeaders, result : ResultPayloads]

\* The results a server gives inside a batch of several expressions.
BatchResults ==
    { [header |-> Some([code |-> 0, err_msg |-> ""]),
       result |-> Some([variant |-> "Mutate", success |-> 1])],
      [header |-> Some([code |-> 0, err_msg |-> ""]),
       result |-> Some([variant |-> "Select", raw_data |-> <<8, 1>>])],
      [header |-> Some([code |-> 1003, err_msg |-> "internal"]),
       result |-> None] }

\* A result nobody asked for, appended by a peer that answers too much.
ExtraResult == [header |-> None, result |-> None]

\* What the transport call can fail with.
TransportErrors == { [kind |-> "Transport", detail |-> "unavailable"],
                     [kind |-> "Transport", detail |-> "deadline exceeded"] }

\* TryFrom<Vec<u8>> for SelectResult
DecodeSelectResult(raw) ==
    IF Len(raw) = 2 /\ raw[1] = 8
    THEN Ok([row_count |-> raw[2]])
    ELSE Err([kind |-> "Decode"])

\* A faulty insert that sends its expression without a header.
InsertExpr_without_header(table, values) ==
    [header |-> None,
     expr |-> Some([variant |-> "Insert", table_name |-> table, values |-> values])]

\* ExprHeader { version: PROTOCOL_VERSION } wrapped around one expression.
InsertExpr(table, values) ==
    [header |-> Some([version |-> PROTOCOL_VERSION]),
     expr |-> Some([variant |-> "Insert", table_name |-> table, values |-> values])]

SelectExpr(sel) ==
    [header |-> Some([version |-> PROTOCOL_VERSION]),
     expr |-> Some([variant |-> "Select", select |-> sel])]

\* The expressions a caller may put in a batch.
BatchExprs == { InsertExpr("t", <<1>>), SelectExpr("s1") }

RECURSIVE SeqsUpTo(_, _)
SeqsUpTo(S, n) ==
    IF n = 0 THEN { <<>> }
    ELSE LET shorter == SeqsUpTo(S, n - 1)
         IN shorter \cup { Append(s, x) : s \in { t \in shorter : Len(t) = n - 1 }, x \in S }

\* A faulty objects that leaves the last expression out of the envelope.
objects_request_dropping_last(name, exprs) ==
    [name |-> name, exprs |-> IF exprs = <<>> THEN exprs ELSE SubSeq(exprs, 1, Len(exprs) - 1)]

\* objects, up to the await: the envelope of the one transport call.
objects_request(name, exprs) == [name |-> name, exprs |-> exprs]

\* A faulty objects that hands the results back in reverse order.
objects_recv_reversed(expr_count, tr) ==
    IF tr.tag # "Ok" THEN tr
    ELSE LET res == tr.val.results
         IN IF Len(res) = expr_count
            THEN Ok([i \in 1..Len(res) |-> res[Len(res) + 1 - i]])
            ELSE Err([kind |-> "MissingResult", name |-> "object_results",
                      expected |-> expr_count, actual |-> Len(res)])

\* A faulty objects that cuts a surplus of results down to the expected count.
objects_recv_truncating(expr_count, tr) ==
    IF tr.tag # "Ok" THEN tr
    ELSE LET res == tr.val.results
         IN IF Len(res) >= expr_count
            THEN Ok(SubSeq(res, 1, expr_count))
            ELSE Err([kind |-> "MissingResult", name |-> "object_results",
                      expected |-> expr_count, actual |-> Len(res)])

\* A faulty objects that answers a failed transport call with no results.
objects_recv_masking_transport(expr_count, tr) ==
    IF tr.tag # "Ok" THEN Ok(<<>>)
    ELSE LET res == tr.val.results
         IN IF Len(res) = expr_count
            THEN Ok(res)
            ELSE Err([kind |-> "MissingResult", name |-> "object_results",
                      expected |-> expr_count, actual |-> Len(res)])

\* objects, from the await on.  tr is the transport's Result<DatabaseResponse>:
\* `?` on a transport error, then ensure!(res.len() == expr_count).
objects_recv(expr_count, tr) ==
    IF tr.tag # "Ok" THEN tr
    ELSE LET res == tr.val.results
         IN IF Len(res) = expr_count
            THEN Ok(res)
            ELSE Err([kind |-> "MissingResult", name |-> "object_results",
                      expected |-> expr_count, actual |-> Len(res)])

\* A faulty object that pops the last result without the count check of objects.
object_recv_unchecked(tr) ==
    IF tr.tag # "Ok" THEN tr
    ELSE IF Len(tr.val.results) = 0 THEN Panic
    ELSE Ok(tr.val.results[Len(tr.val.results)])

\* object, from the await on: objects(vec![expr]).await?.pop().unwrap()
object_recv(tr) ==
    LET r == objects_recv(1, tr)
    IN IF r.tag # "Ok" THEN r
       ELSE IF Len(r.val) = 0 THEN Panic
       ELSE Ok(r.val[Len(r.val)])

\* insert, from the await on: self.object(expr).await?; Ok(())
insert_recv(tr) ==
    LET r == object_recv(tr)
    IN IF r.tag # "Ok" THEN r ELSE Ok([unit |-> TRUE])

\* A faulty select that unpacks and decodes the payload before it reads the status.
select_recv_payload_first(tr) ==
    LET r == object_recv(tr)
    IN IF r.tag # "Ok" THEN [out |-> r, decoded |-> FALSE]
       ELSE LET obj_result == r.val
            IN IF ~obj_result.header.some
               THEN [out |-> Err([kind |-> "MissingHeader"]), decoded |-> FALSE]
               ELSE IF ~obj_result.result.some
               THEN [out |-> Err([kind |-> "MissingResult", name |-> "select_result",
                                  expected |-> 1, actual |-> 0]),
                     decoded |-> FALSE]
               ELSE IF obj_result.result.v.variant = "Select"
                       /\ DecodeSelectResult(obj_result.result.v.raw_data).tag = "Err"
               THEN [out |-> Err([kind |-> "DecodeSelect"]), decoded |-> TRUE]
               ELSE IF ~is_success(obj_result.header.v.code)
               THEN [out |-> Err([kind |-> "Datanode", code |-> obj_result.header.v.code,
                                  msg |-> obj_result.header.v.err_msg]),
                     decoded |-> obj_result.result.v.variant = "Select"]
               ELSE IF obj_result.result.v.variant = "Select"
               THEN [out |-> Ok([variant |-> "Select",
                                 select |-> DecodeSelectResult(obj_result.result.v.raw_data).val]),
                     decoded |-> TRUE]
               ELSE [out |-> Ok([variant |-> "Mutate", mutate |-> obj_result.result.v]),
                     decoded |-> FALSE]

\* A faulty select that answers undecodable bytes with an empty result.
select_recv_lenient_decode(tr) ==
    LET r == object_recv(tr)
    IN IF r.tag # "Ok" THEN [out |-> r, decoded |-> FALSE]
       ELSE LET obj_result == r.val
            IN IF ~obj_result.header.some
               THEN [out |-> Err([kind |-> "MissingHeader"]), decoded |-> FALSE]
               ELSE IF ~is_success(obj_result.header.v.code)
               THEN [out |-> Err([kind |-> "Datanode", code |-> obj_result.header.v.code,
                                  msg |-> obj_result.header.v.err_msg]),
                     decoded |-> FALSE]
               ELSE IF ~obj_result.result.some
               THEN [out |-> Err([kind |-> "MissingResult", name |-> "select_result",
                                  expected |-> 1, actual |-> 0]),
                     decoded |-> FALSE]
               ELSE IF obj_result.result.v.variant = "Select"
               THEN LET d == DecodeSelectResult(obj_result.result.v.raw_data)
                    IN [out |-> IF d.tag = "Ok"
                                THEN Ok([variant |-> "Select", select |-> d.val])
                                ELSE Ok([variant |-> "Select", select |-> [row_count |-> 0]]),
                        decoded |-> TRUE]
               ELSE [out |-> Ok([variant |-> "Mutate", mutate |-> obj_result.result.v]),
                     decoded |-> FALSE]

\* A faulty select that takes the payload of a Select request for a Select payload.
select_recv_by_request_shape(tr) ==
    LET r == object_recv(tr)
    IN IF r.tag # "Ok" THEN [out |-> r, decoded |-> FALSE]
       ELSE LET obj_result == r.val
            IN IF ~obj_result.header.some
               THEN [out |-> Err([kind |-> "MissingHeader"]), decoded |-> FALSE]
               ELSE IF ~is_success(obj_result.header.v.code)
               THEN [out |-> Err([kind |-> "Datanode", code |-> obj_result.header.v.code,
                                  msg |-> obj_result.header.v.err_msg]),
                     decoded |-> FALSE]
               ELSE IF ~obj_result.result.some
               THEN [out |-> Err([kind |-> "MissingResult", name |-> "select_result",
                                  expected |-> 1, actual |-> 0]),
                     decoded |-> FALSE]
               ELSE LET d == IF obj_result.result.v.variant = "Select"
                             THEN DecodeSelectResult(obj_result.result.v.raw_data)
                             ELSE DecodeSelectResult(<<>>)
                    IN [out |-> IF d.tag = "Ok"
                                THEN Ok([variant |-> "Select", select |-> d.val])
                                ELSE Err([kind |-> "DecodeSelect"]),
                        decoded |-> TRUE]

\* A faulty select that takes an absent payload for an empty mutation summary.
select_recv_default_payload(tr) ==
    LET r == object_recv(tr)
    IN IF r.tag # "Ok" THEN [out |-> r, decoded |-> FALSE]
       ELSE LET obj_result == r.val
            IN IF ~obj_result.header.some
               THEN [out |-> Err([kind |-> "MissingHeader"]), decoded |-> FALSE]
               ELSE IF ~is_success(obj_result.header.v.code)
               THEN [out |-> Err([kind |-> "Datanode", code |-> obj_result.header.v.code,
                                  msg |-> obj_result.header.v.err_msg]),
                     decoded |-> FALSE]
               ELSE IF ~obj_result.result.some
               THEN [out |-> Ok([variant |-> "Mutate",
                                 mutate |-> [variant |-> "Mutate", success |-> 0]]),
                     decoded |-> FALSE]
               ELSE IF obj_result.result.v.variant = "Select"
               THEN LET d == DecodeSelectResult(obj_result.result.v.raw_data)
                    IN [out |-> IF d.tag = "Ok"
                                THEN Ok([variant |-> "Select", select |-> d.val])
                                ELSE Err([kind |-> "DecodeSelect"]),
                        decoded |-> TRUE]
               ELSE [out |-> Ok([variant |-> "Mutate", mutate |-> obj_result.result.v]),
                     decoded |-> FALSE]

\* select, from the await on.  Gives the returned value and whether the decoder ran.
select_recv(tr) ==
    LET r == object_recv(tr)
    IN IF r.tag # "Ok" THEN [out |-> r, decoded |-> FALSE]
       ELSE LET obj_result == r.val
            IN IF ~obj_result.header.some
               THEN [out |-> Err([kind |-> "MissingHeader"]), decoded |-> FALSE]
               ELSE IF ~is_success(obj_result.header.v.code)
               THEN [out |-> Err([kind |-> "Datanode", code |-> obj_result.header.v.code,
                                  msg |-> obj_result.header.v.err_msg]),
                     decoded |-> FALSE]
               ELSE IF ~obj_result.result.some
               THEN [out |-> Err([kind |-> "MissingResult", name |-> "select_result",
                                  expected |-> 1, actual |-> 0]),
                     decoded |-> FALSE]
               ELSE IF obj_result.result.v.variant = "Select"
               THEN LET d == DecodeSelectResult(obj_result.result.v.raw_data)
                    IN [out |-> IF d.tag = "Ok"
                                THEN Ok([variant |-> "Select", select |-> d.val])
                                ELSE Err([kind |-> "DecodeSelect"]),
                        decoded |-> TRUE]
               ELSE [out |-> Ok([variant |-> "Mutate", mutate |-> obj_result.result.v]),
                     decoded |-> FALSE]

\* The call starts: the operation builds its expressions and objects puts the
\* one envelope on the transport.
DatabaseSend(op, exprs) ==
    /\ cpc = "idle"
    /\ cpc' = "sent"
    /\ cop' = op
    /\ cexprs' = exprs
    /\ cwire' = Append(cwire, objects_request(DbName, exprs))
    /\ canswer' = [i \in 1..Len(exprs) |-> Nil]
    /\ corder' = <<>>
    /\ UNCHANGED <<cresp, cobj, cout, cdecoded>>
    /\ UNCHANGED <<rvars, qvars, svars>>

CallInsert == DatabaseSend("insert", <<InsertExpr("t", <<1, 2>>)>>)

CallSelect == DatabaseSend("select", <<SelectExpr("s1")>>)

CallObjects == \E exprs \in SeqsUpTo(BatchExprs, MaxExprs) : DatabaseSend("objects", exprs)

\* The server finishes request i, in any order, and keeps its result for position i.
ServerComplete ==
    /\ cpc = "sent"
    /\ \E i \in DOMAIN canswer :
         /\ canswer[i] = Nil
         /\ \E res \in (IF cop = "objects" THEN BatchResults ELSE ObjectResults) :
              canswer' = [canswer EXCEPT ![i] = res]
         /\ corder' = Append(corder, i)
    /\ UNCHANGED <<cpc, cop, cexprs, cwire, cresp, cobj, cout, cdecoded>>
    /\ UNCHANGED <<rvars, qvars, svars>>

\* What the transport call can return: a failure at any time; once every request
\* is answered the results in request order, short of its tail, or with one more.
TransportResults ==
    { Err(e) : e \in TransportErrors }
    \cup (IF \A i \in DOMAIN canswer : canswer[i] # Nil
          THEN { Ok([results |-> SubSeq(canswer, 1, m)]) : m \in 0..Len(canswer) }
               \cup { Ok([results |-> Append(canswer, ExtraResult)]) }
          ELSE {})

\* The transport call returns and the operation runs to its end.
DatabaseReturn ==
    /\ cpc = "sent"
    /\ \E tr \in TransportResults :
         /\ cresp' = tr
         /\ cobj' = objects_recv(Len(cexprs), tr)
         /\ CASE cop = "insert" ->
                   /\ cout' = insert_recv(tr)
                   /\ cdecoded' = FALSE
              [] cop = "select" ->
                   /\ cout' = select_recv(tr).out
                   /\ cdecoded' = select_recv(tr).decoded
              [] OTHER ->
                   /\ cout' = objects_recv(Len(cexprs), tr)
                   /\ cdecoded' = FALSE
    /\ cpc' = "done"
    /\ UNCHANGED <<cop, cexprs, cwire, canswer, corder>>
    /\ UNCHANGED <<rvars, qvars, svars>>

InitClient ==
    /\ cpc = "idle"
    /\ cop = "none"
    /\ cexprs = <<>>
    /\ cwire = <<>>
    /\ canswer = <<>>
    /\ corder = <<>>
    /\ cresp = Nil
    /\ cobj = Nil
    /\ cout = Nil
    /\ cdecoded = FALSE

NextClient ==
    \/ CallInsert
    \/ CallSelect
    \/ CallObjects
    \/ ServerComplete
    \/ DatabaseReturn

\* ----------------------------------------------------------- client claims

\* C1: Database::objects, given a transport response of M results for N requests,
\* returns Ok with exactly those M results when M = N and fails with
\* MissingResult{name: "object_results", expected: N, actual: M} when M # N; it
\* neither truncates nor pads.
C1_ObjectsCountChecked ==
    (cpc = "done" /\ cresp.tag = "Ok") =>
        LET N == Len(cexprs)
            M == Len(cresp.val.results)
        IN /\ (M = N => cobj = Ok(cresp.val.results))
           /\ (M # N => cobj = Err([kind |-> "MissingResult", name |-> "object_results",
                                    expected |-> N, actual |-> M]))
           /\ (cop = "objects" => cout = cobj)

\* Three requests, two results: the count violation of the spec's example.
C1_Witness ==
    /\ cpc = "done"
    /\ cop = "objects"
    /\ Len(cexprs) = 3
    /\ cresp.tag = "Ok"
    /\ Len(cresp.val.results) = 2
    /\ cout = Err([kind |-> "MissingResult", name |-> "object_results",
                   expected |-> 3, actual |-> 2])

\* C2: whatever order the server completed the requests in, the result objects
\* returns at position i is the result produced for the request at position i.
C2_PositionalCorrespondence ==
    (cpc = "done" /\ cobj.tag = "Ok") =>
        /\ Len(cobj.val) = Len(cexprs)
        /\ \A i \in 1..Len(cexprs) : cobj.val[i] = canswer[i]

\* The last request completed first and the first one last, with different results.
C2_Witness ==
    /\ cpc = "done"
    /\ cobj.tag = "Ok"
    /\ Len(cexprs) = MaxExprs
    /\ corder[1] = MaxExprs
    /\ corder[MaxExprs] = 1
    /\ canswer[1] # canswer[MaxExprs]
    /\ cout.val[1] = canswer[1]

\* The one result of a single-operation call, when the transport gave exactly one.
SoleResult == cresp.val.results[1]

RemoteFailureReceived ==
    /\ cpc = "done"
    /\ cresp.tag = "Ok"
    /\ Len(cresp.val.results) = 1
    /\ SoleResult.header.some
    /\ ~is_success(SoleResult.header.v.code)

\* C5: select, on a response whose header carries a non-success code, fails with
\* the Datanode error of exactly that code and err_msg, without running the decoder.
C5_SelectRemoteFailureFirst ==
    (cop = "select" /\ RemoteFailureReceived) =>
        /\ cout = Err([kind |-> "Datanode", code |-> SoleResult.header.v.code,
                       msg |-> SoleResult.header.v.err_msg])
        /\ ~cdecoded

\* A failure header in front of a Select payload whose bytes do not decode.
C5_Witness ==
    /\ cop = "select"
    /\ RemoteFailureReceived
    /\ SoleResult.result = Some([variant |-> "Select", raw_data |-> <<7>>])
    /\ cout = Err([kind |-> "Datanode", code |-> 1003, msg |-> "disk full"])

\* C6: every Database operation, insert as well as select, surfaces a non-success
\* status code as the remote failure of that code and message.
C6_EveryOperationSurfacesRemoteFailure ==
    (cop \in {"insert", "select"} /\ RemoteFailureReceived) =>
        cout = Err([kind |-> "Datanode", code |-> SoleResult.header.v.code,
                    msg |-> SoleResult.header.v.err_msg])

SuccessReceived ==
    /\ cpc = "done"
    /\ cresp.tag = "Ok"
    /\ Len(cresp.val.results) = 1
    /\ SoleResult.header.some
    /\ is_success(SoleResult.header.v.code)
    /\ SoleResult.result.some

C19_ObjectCountViolation ==
    (cop \in {"insert", "select"} /\ cpc = "done") =>
        /\ Len(cwire[1].exprs) = 1
        /\ cout.tag # "Panic"
        /\ (cresp.tag = "Ok" /\ Len(cresp.val.results) # 1 =>
               cout = Err([kind |-> "MissingResult", name |-> "object_results",
                           expected |-> 1, actual |-> Len(cresp.val.results)]))
        /\ (cop = "insert" /\ cresp.tag = "Ok" /\ Len(cresp.val.results) = 1 =>
               cout.tag = "Ok")

\* The transport answered a single operation with no result at all.
C19_Witness ==
    /\ cop = "insert"
    /\ cpc = "done"
    /\ cresp = Ok([results |-> <<>>])
    /\ cout = Err([kind |-> "MissingResult", name |-> "object_results",
                   expected |-> 1, actual |-> 0])

\* C20: every ObjectExpr put on the transport carries a header, and its version
\* is the protocol version 1.
C20_EveryExprHasVersionHeader ==
    \A k \in DOMAIN cwire :
        \A i \in DOMAIN cwire[k].exprs :
            /\ cwire[k].exprs[i].header.some
            /\ cwire[k].exprs[i].header.v.version = 1

\* An insert and a select expression went out in one envelope.
C20_Witness ==
    /\ Len(cwire) = 1
    /\ \E i, j \in DOMAIN cwire[1].exprs :
         /\ cwire[1].exprs[i].expr.v.variant = "Insert"
         /\ cwire[1].exprs[j].expr.v.variant = "Select"
         /\ cwire[1].exprs[i].header = Some([version |-> 1])

\* C21: a call of a Database operation makes exactly one transport call, whose
\* envelope carries the database's name and all the expressions of the call in
\* the caller's order; no further call is made, whatever the transport returns.
C21_OneEnvelopePerCall ==
    IF cpc = "idle" THEN cwire = <<>>
    ELSE /\ Len(cwire) = 1
         /\ cwire[1].name = DbName
         /\ cwire[1].exprs = cexprs

\* A batch of three expressions of both kinds went out and came back short.
C21_Witness ==
    /\ cpc = "done"
    /\ cop = "objects"
    /\ cexprs = <<InsertExpr("t", <<1>>), SelectExpr("s1"), InsertExpr("t", <<1>>)>>
    /\ cwire = <<[name |-> "db", exprs |-> cexprs]>>
    /\ cout.tag = "Err"

\* C28: select never returns Ok when a required field of the single response is
\* absent: without a header it fails with MissingHeader, with a success header
\* and no payload it fails with MissingResult{"select_result", 1, 0}.
C28_SelectMissingFields ==
    (cop = "select" /\ cpc = "done" /\ cresp.tag = "Ok" /\ Len(cresp.val.results) = 1) =>
        /\ (~SoleResult.header.some => cout = Err([kind |-> "MissingHeader"]))
        /\ ((SoleResult.header.some /\ is_success(SoleResult.header.v.code)
              /\ ~SoleResult.result.some) =>
               cout = Err([kind |-> "MissingResult", name |-> "select_result",
                           expected |-> 1, actual |-> 0]))
        /\ (cout.tag = "Ok" => SoleResult.header.some /\ SoleResult.result.some)

\* A success header arrived without any payload.
C28_Witness ==
    /\ cop = "select"
    /\ cpc = "done"
    /\ cresp = Ok([results |-> <<[header |-> Some([code |-> 0, err_msg |-> ""]),
                                  result |-> None]>>])
    /\ cout = Err([kind |-> "MissingResult", name |-> "select_result",
                   expected |-> 1, actual |-> 0])

\* C30: when the transport call fails, objects returns that error, with no count
\* check and no results, and insert and select return the same error unchanged.
C30_TransportErrorPassesThrough ==
    (cpc = "done" /\ cresp.tag = "Err") =>
        /\ cresp.err \in TransportErrors
        /\ cobj = cresp
        /\ cout = cresp
        /\ ~cdecoded

\* A select whose transport call ran into its deadline.
C30_Witness ==
    /\ cpc = "done"
    /\ cop = "select"
    /\ cresp = Err([kind |-> "Transport", detail |-> "deadline exceeded"])
    /\ cout = Err([kind |-> "Transport", detail |-> "deadline exceeded"])

\* ================================================================= region

Reqs == 1..NumReq

TraceIds == { 11, 22 }

RegionRequests ==
    [header : { None } \cup { Some([trace_id |-> t]) : t \in TraceIds },
     body : { None, Some([variant |-> "Inserts"]) }]

\* StatusCode::should_log_error: the unexpected kinds are worth an error log.
should_log_error(code) == code \in { 1000, 1002, 1003 }

\* The errors a RegionServerHandler can report, with their status codes.
HandlerErrors ==
    { [kind |-> "Internal", status_code |-> 1003, reason |-> "engine"],
      [kind |-> "NotSupported", status_code |-> 1001, reason |-> "alter"],
      [kind |-> "InvalidQuery", status_code |-> 1004, reason |-> "bad rows"] }

\* RegionServerHandler::handle -> Result<RegionResponse>
HandlerResults ==
    { Ok([affected_rows |-> 1]) } \cup { Err(e) : e \in HandlerErrors }

\* A faulty validation that lets a request without a body through.
validate_accepts_missing_body(request) ==
    IF ~request.header.some
    THEN Err([kind |-> "InvalidQuery",
              reason |-> "Expecting non-empty region request header."])
    ELSE Ok([trace_id |-> request.header.v.trace_id,
             query |-> IF request.body.some THEN request.body.v ELSE Nil])

\* A faulty validation that looks at the body before the header.
validate_body_first(request) ==
    IF ~request.body.some
    THEN Err([kind |-> "InvalidQuery",
              reason |-> "Expecting non-empty region request body."])
    ELSE IF ~request.header.some
    THEN Err([kind |-> "InvalidQuery",
              reason |-> "Expecting non-empty region request header."])
    ELSE Ok([trace_id |-> request.header.v.trace_id, query |-> request.body.v])

\* The two context(InvalidQuerySnafu)? of handle: header first, then body.
validate(request) ==
    IF ~request.header.some
    THEN Err([kind |-> "InvalidQuery",
              reason |-> "Expecting non-empty region request header."])
    ELSE IF ~request.body.some
    THEN Err([kind |-> "InvalidQuery",
              reason |-> "Expecting non-empty region request body."])
    ELSE Ok([trace_id |-> request.header.v.trace_id, query |-> request.body.v])

\* A faulty closure that replaces an error it logs at error level.
map_err_log_wrapping(hv) ==
    IF hv.tag # "Err" THEN [out |-> hv, logs |-> <<>>]
    ELSE IF should_log_error(hv.err.status_code)
    THEN [out |-> Err([kind |-> "Internal", status_code |-> 1003,
                       reason |-> "Failed to handle request"]),
          logs |-> <<"error">>]
    ELSE [out |-> hv, logs |-> <<"debug">>]

\* A faulty closure that logs the severe errors only.
map_err_log_error_only(hv) ==
    IF hv.tag # "Err" THEN [out |-> hv, logs |-> <<>>]
    ELSE IF should_log_error(hv.err.status_code)
    THEN [out |-> hv, logs |-> <<"error">>]
    ELSE [out |-> hv, logs |-> <<>>]

\* The map_err closure around the handler: logs by severity, returns the error.
map_err_log(hv) ==
    IF hv.tag # "Err" THEN [out |-> hv, logs |-> <<>>]
    ELSE IF should_log_error(hv.err.status_code)
    THEN [out |-> hv, logs |-> <<"error">>]
    ELSE [out |-> hv, logs |-> <<"debug">>]

\* A faulty join that reports a task's panic as a handler error.
join_swallowing_panic(state, out) ==
    IF state = "panicked" THEN Err([kind |-> "Internal", status_code |-> 1003,
                                    reason |-> "engine"])
    ELSE out

\* handle.await.context(JoinTaskSnafu)?: a task that did not run to its end is a
\* JoinTask error, a finished one gives the value of its future.
join(state, out) ==
    IF state = "panicked" THEN Err([kind |-> "JoinTask"]) ELSE out

\* handle up to its await: validation, then the spawn on the other runtime.
Handle(r) ==
    /\ rpc[r] = "idle"
    /\ \E request \in RegionRequests :
         LET v == validate(request)
         IN /\ rreq' = [rreq EXCEPT ![r] = request]
            /\ IF v.tag = "Err"
               THEN /\ rout' = [rout EXCEPT ![r] = v]
                    /\ rpc' = [rpc EXCEPT ![r] = "returned"]
                    /\ UNCHANGED <<task, taskScope>>
               ELSE /\ task' = [task EXCEPT ![r] = "spawned"]
                    /\ taskScope' = [taskScope EXCEPT ![r] = v.val.trace_id]
                    /\ rpc' = [rpc EXCEPT ![r] = "awaiting"]
                    /\ UNCHANGED rout
    /\ UNCHANGED <<traceSeen, invoked, handlerVal, taskOut, rlogs>>
    /\ UNCHANGED <<cvars, qvars, svars>>

\* A faulty entry that keeps the trace id in one place for the whole process:
\* the handler sees the id of whichever request was scoped.
TaskStartSharedTrace(r) ==
    /\ task[r] = "spawned"
    /\ task' = [task EXCEPT ![r] = "running"]
    /\ invoked' = [invoked EXCEPT ![r] = @ + 1]
    /\ \E s \in Reqs :
         /\ taskScope[s] # 0
         /\ traceSeen' = [traceSeen EXCEPT ![r] = taskScope[s]]
    /\ UNCHANGED <<rreq, rpc, taskScope, handlerVal, taskOut, rlogs, rout>>
    /\ UNCHANGED <<cvars, qvars, svars>>

\* The runtime polls the spawned task: the handler is invoked inside the scope.
TaskStart(r) ==
    /\ task[r] = "spawned"
    /\ task' = [task EXCEPT ![r] = "running"]
    /\ invoked' = [invoked EXCEPT ![r] = @ + 1]
    /\ traceSeen' = [traceSeen EXCEPT ![r] = taskScope[r]]
    /\ UNCHANGED <<rreq, rpc, taskScope, handlerVal, taskOut, rlogs, rout>>
    /\ UNCHANGED <<cvars, qvars, svars>>

\* The handler returns; map_err logs a failure; the task's future resolves.
TaskFinish(r) ==
    /\ task[r] = "running"
    /\ \E hv \in HandlerResults :
         /\ handlerVal' = [handlerVal EXCEPT ![r] = hv]
         /\ taskOut' = [taskOut EXCEPT ![r] = map_err_log(hv).out]
         /\ rlogs' = [rlogs EXCEPT ![r] = @ \o map_err_log(hv).logs]
    /\ task' = [task EXCEPT ![r] = "done"]
    /\ UNCHANGED <<rreq, rpc, taskScope, traceSeen, invoked, rout>>
    /\ UNCHANGED <<cvars, qvars, svars>>

\* A faulty runtime in which one task's panic takes the other tasks down too.
TaskPanicTakesDownOthers(r) ==
    /\ task[r] = "running"
    /\ task' = [s \in Reqs |-> IF s = r \/ task[s] \in { "spawned", "running" }
                                THEN "panicked" ELSE task[s]]
    /\ UNCHANGED <<rreq, rpc, taskScope, traceSeen, invoked, handlerVal, taskOut, rlogs, rout>>
    /\ UNCHANGED <<cvars, qvars, svars>>

\* The handler panics: the task ends without a value.
TaskPanic(r) ==
    /\ task[r] = "running"
    /\ task' = [task EXCEPT ![r] = "panicked"]
    /\ UNCHANGED <<rreq, rpc, taskScope, traceSeen, invoked, handlerVal, taskOut, rlogs, rout>>
    /\ UNCHANGED <<cvars, qvars, svars>>

\* A faulty entry that answers a failure by running the request once more.
JoinRetrying(r) ==
    /\ rpc[r] = "awaiting"
    /\ task[r] \in { "done", "panicked" }
    /\ IF join(task[r], taskOut[r]).tag = "Err" /\ invoked[r] < 2
       THEN /\ task' = [task EXCEPT ![r] = "spawned"]
            /\ UNCHANGED <<rout, rpc>>
       ELSE /\ rout' = [rout EXCEPT ![r] = join(task[r], taskOut[r])]
            /\ rpc' = [rpc EXCEPT ![r] = "returned"]
            /\ UNCHANGED task
    /\ UNCHANGED <<rreq, taskScope, traceSeen, invoked, handlerVal, taskOut, rlogs>>
    /\ UNCHANGED <<cvars, qvars, svars>>

\* A faulty entry that answers as soon as the task is spawned.
JoinWithoutWaiting(r) ==
    /\ rpc[r] = "awaiting"
    /\ rout' = [rout EXCEPT ![r] = IF task[r] = "done" THEN taskOut[r]
                                    ELSE Err([kind |-> "JoinTask"])]
    /\ rpc' = [rpc EXCEPT ![r] = "returned"]
    /\ UNCHANGED <<rreq, task, taskScope, traceSeen, invoked, handlerVal, taskOut, rlogs>>
    /\ UNCHANGED <<cvars, qvars, svars>>

\* The awaiting caller is woken by the join handle and returns.
Join(r) ==
    /\ rpc[r] = "awaiting"
    /\ task[r] \in { "done", "panicked" }
    /\ rout' = [rout EXCEPT ![r] = join(task[r], taskOut[r])]
    /\ rpc' = [rpc EXCEPT ![r] = "returned"]
    /\ UNCHANGED <<rreq, task, taskScope, traceSeen, invoked, handlerVal, taskOut, rlogs>>
    /\ UNCHANGED <<cvars, qvars, svars>>

\* A faulty entry whose task lives and dies with the future that awaits it.
DropCallerAbortsTask(r) ==
    /\ rpc[r] = "awaiting"
    /\ rpc' = [rpc EXCEPT ![r] = "dropped"]
    /\ task' = [task EXCEPT ![r] = IF @ \in { "spawned", "running" } THEN "aborted" ELSE @]
    /\ UNCHANGED <<rreq, taskScope, traceSeen, invoked, handlerVal, taskOut, rlogs, rout>>
    /\ UNCHANGED <<cvars, qvars, svars>>

\* The transport drops the future that awaits the join handle.  A dropped
\* JoinHandle detaches the task: it stays where it is and keeps running.
DropCaller(r) ==
    /\ rpc[r] = "awaiting"
    /\ rpc' = [rpc EXCEPT ![r] = "dropped"]
    /\ UNCHANGED <<rreq, task, taskScope, traceSeen, invoked, handlerVal, taskOut, rlogs, rout>>
    /\ UNCHANGED <<cvars, qvars, svars>>

InitRegion ==
    /\ rreq = [r \in Reqs |-> Nil]
    /\ rpc = [r \in Reqs |-> "idle"]
    /\ task = [r \in Reqs |-> "none"]
    /\ taskScope = [r \in Reqs |-> 0]
    /\ traceSeen = [r \in Reqs |-> 0]
    /\ invoked = [r \in Reqs |-> 0]
    /\ handlerVal = [r \in Reqs |-> Nil]
    /\ taskOut = [r \in Reqs |-> Nil]
    /\ rlogs = [r \in Reqs |-> <<>>]
    /\ rout = [r \in Reqs |-> Nil]

NextRegion ==
    \E r \in Reqs :
        \/ Handle(r)
        \/ TaskStart(r)
        \/ TaskFinish(r)
        \/ TaskPanic(r)
        \/ Join(r)
        \/ DropCaller(r)

\* ----------------------------------------------------------- region claims

TaskEnded(r) == task[r] \in { "done", "panicked" }

\* C3: once handle has spawned the handler invocation, the invocation takes place
\* and the task runs to its end, also when the awaiting caller is dropped at any
\* point after the dispatch.
C3_SpawnedWorkRunsToCompletion ==
    \A r \in Reqs : (task[r] = "spawned") ~> (TaskEnded(r) /\ invoked[r] = 1)

\* The caller left without its answer, and the handler still ran and finished.
C3_Witness ==
    \E r \in Reqs :
        /\ rpc[r] = "dropped"
        /\ task[r] = "done"
        /\ invoked[r] = 1
        /\ handlerVal[r] = Ok([affected_rows |-> 1])

\* C4: when the task ran to its end, the caller is returned the value the handler
\* produced, an error being the identical error whatever its severity.
C4_HandlerValueReturnedUnchanged ==
    \A r \in Reqs :
        (rpc[r] = "returned" /\ task[r] = "done") => rout[r] = handlerVal[r]

\* An error of the loggable severity came back as it was.
C4_Witness ==
    \E r \in Reqs :
        /\ rpc[r] = "returned"
        /\ task[r] = "done"
        /\ handlerVal[r].tag = "Err"
        /\ should_log_error(handlerVal[r].err.status_code)
        /\ rlogs[r] = <<"error">>
        /\ rout[r] = handlerVal[r]

InvalidEnvelope(r) == rreq[r] # Nil /\ (~rreq[r].header.some \/ ~rreq[r].body.some)

\* C7: a RegionRequest without a header or without a body fails with InvalidQuery,
\* and nothing is dispatched for it: no task is spawned, the handler is not invoked.
C7_InvalidEnvelopeExecutesNothing ==
    \A r \in Reqs :
        InvalidEnvelope(r) =>
            /\ rpc[r] = "returned"
            /\ rout[r].tag = "Err"
            /\ rout[r].err.kind = "InvalidQuery"
            /\ task[r] = "none"
            /\ invoked[r] = 0
            /\ handlerVal[r] = Nil

\* A request with a header and no body was turned away while another one ran.
C7_Witness ==
    \E r, s \in Reqs :
        /\ rreq[r] # Nil
        /\ rreq[r].header.some
        /\ ~rreq[r].body.some
        /\ rout[r] = Err([kind |-> "InvalidQuery",
                          reason |-> "Expecting non-empty region request body."])
        /\ task[s] = "done"

\* C8: a task that did not run to its end gives the caller the JoinTask failure,
\* which no handler-reported error is; a handler-returned Err is never reported
\* as a JoinTask failure.
C8_JoinFailureDistinct ==
    \A r \in Reqs :
        /\ (rpc[r] = "returned" /\ task[r] = "panicked") =>
               (rout[r] = Err([kind |-> "JoinTask"]) /\ Err(rout[r].err) \notin HandlerResults)
        /\ (rpc[r] = "returned" /\ task[r] = "done" /\ handlerVal[r].tag = "Err") =>
               rout[r].err.kind # "JoinTask"

\* One request's task panicked and its caller was told so.
C8_Witness ==
    \E r \in Reqs :
        /\ rpc[r] = "returned"
        /\ task[r] = "panicked"
        /\ invoked[r] = 1
        /\ rout[r] = Err([kind |-> "JoinTask"])

HasOutcome(r) == rout[r] # Nil

\* One request's state in full.
RequestState(r) ==
    <<rreq[r], rpc[r], task[r], taskScope[r], traceSeen[r], invoked[r],
      handlerVal[r], taskOut[r], rlogs[r], rout[r]>>

\* How often the handler ran and what the caller holds, in any state.
C22_Counts ==
    \A r \in Reqs :
        /\ invoked[r] <= 1
        /\ (InvalidEnvelope(r) => invoked[r] = 0)
        /\ (HasOutcome(r) <=> rpc[r] = "returned")
        /\ ((HasOutcome(r) /\ ~InvalidEnvelope(r)) => invoked[r] = 1)
        /\ (HasOutcome(r) => rout[r].tag \in { "Ok", "Err" })

\* No step invokes the handler for a request that has ended or been answered.
C22_NoSecondRound ==
    \A r \in Reqs :
        /\ invoked'[r] \in { invoked[r], invoked[r] + 1 }
        /\ (HasOutcome(r) => (rout'[r] = rout[r] /\ invoked'[r] = invoked[r]))
        /\ (TaskEnded(r) => invoked'[r] = invoked[r])

\* C22: for each RegionRequest the handler is invoked exactly once when the
\* envelope is valid and never when it is not, the caller obtains exactly one
\* outcome, and after a handler error or a JoinTask failure the handler is not
\* invoked again for that request.
C22_HandlerInvokedOnce ==
    []C22_Counts /\ [][C22_NoSecondRound]_vars

\* One request ended in a handler error and the other in a JoinTask failure, each
\* after a single invocation.
C22_Witness ==
    \E r, s \in Reqs :
        /\ rpc[r] = "returned"
        /\ rout[r] = Err([kind |-> "Internal", status_code |-> 1003, reason |-> "engine"])
        /\ invoked[r] = 1
        /\ rpc[s] = "returned"
        /\ rout[s] = Err([kind |-> "JoinTask"])
        /\ invoked[s] = 1

\* The stages of a request, numbered in their order: 0 not yet received; the
\* stages Received, HeaderValidated and Dispatched are passed inside handle before
\* its await, leaving the request at Dispatched (3); Executing (4); execution
\* finished (5); the terminal stage Succeeded or Failed (6).
StageRank(r) ==
    IF rreq[r] = Nil THEN 0
    ELSE IF rpc[r] = "returned" THEN 6
    ELSE IF task[r] = "spawned" THEN 3
    ELSE IF task[r] = "running" THEN 4
    ELSE 5

\* Where a request can be, and what it holds there.
C23_StageInv ==
    \A r \in Reqs :
        /\ (rreq[r] # Nil /\ rpc[r] # "returned") => task[r] # "none"
        /\ (rpc[r] = "returned" => rout[r].tag \in { "Ok", "Err" })
        /\ ((rpc[r] = "returned" /\ ~InvalidEnvelope(r)) => TaskEnded(r))
        /\ (rpc[r] # "returned" => rout[r] = Nil)

\* No step moves a request back, or moves it at all once it is answered.
C23_StageStep ==
    \A r \in Reqs :
        /\ StageRank(r)' >= StageRank(r)
        /\ (StageRank(r) = 6 => RequestState(r)' = RequestState(r))

\* C23: a region request moves through its stages forward only, stays in its
\* terminal stage with its one outcome, and the caller is given a response only
\* after the spawned execution has finished.
C23_MonotoneStages ==
    []C23_StageInv /\ [][C23_StageStep]_vars

\* One request has its response after its execution finished, another is executing.
C23_Witness ==
    \E r, s \in Reqs :
        /\ StageRank(r) = 6
        /\ task[r] = "done"
        /\ rout[r] = Ok([affected_rows |-> 1])
        /\ StageRank(s) = 4

\* A JoinTask failure answers a task that panicked, a finished task its own value.
C24_OwnResult ==
    \A r \in Reqs :
        /\ ((rpc[r] = "returned" /\ rout[r] = Err([kind |-> "JoinTask"])) =>
               (task[r] = "panicked" /\ invoked[r] = 1))
        /\ ((rpc[r] = "returned" /\ task[r] = "done") => rout[r] = handlerVal[r])

\* The step in which a task panics changes that request alone.
C24_PanicTouchesOneRequest ==
    \A r \in Reqs :
        (task[r] # "panicked" /\ task'[r] = "panicked") =>
            \A s \in Reqs \ { r } : RequestState(s)' = RequestState(s)

\* C24: with several requests in flight, the failure of one request's task is
\* reported to that request only: the step in which a task panics leaves every
\* other request as it was, and every other request that completes is returned
\* what its own handler invocation produced.
C24_JoinFailureIsolated ==
    []C24_OwnResult /\ [][C24_PanicTouchesOneRequest]_vars

\* One request was told of its task's failure, the other got its handler's result.
C24_Witness ==
    \E r, s \in Reqs :
        /\ rpc[r] = "returned"
        /\ task[r] = "panicked"
        /\ rout[r] = Err([kind |-> "JoinTask"])
        /\ rpc[s] = "returned"
        /\ task[s] = "done"
        /\ rout[s] = Ok([affected_rows |-> 1])

\* C29: the header is validated before the body: a request without a header fails
\* with the missing-header reason whether or not it has a body, and the
\* missing-body reason is given only to a request that has a header.
C29_HeaderBeforeBody ==
    \A r \in Reqs :
        rreq[r] # Nil =>
            /\ (~rreq[r].header.some =>
                   rout[r] = Err([kind |-> "InvalidQuery",
                                  reason |-> "Expecting non-empty region request header."]))
            /\ (rout[r] = Err([kind |-> "InvalidQuery",
                               reason |-> "Expecting non-empty region request body."]) =>
                   (rreq[r].header.some /\ ~rreq[r].body.some))

\* A request with neither header nor body was told of the missing header.
C29_Witness ==
    \E r \in Reqs :
        /\ rreq[r] = [header |-> None, body |-> None]
        /\ rout[r] = Err([kind |-> "InvalidQuery",
                          reason |-> "Expecting non-empty region request header."])

\* ================================================================== query

\* A query text is a string of tokens: a statement keyword each, or the ";" that
\* separates statements.
SqlTokens == { "SELECT", "INSERT", ";" }

PromTokens == { "up", ";" }

\* QueryLanguageParser: the statements of a text, in order, separators dropped.
RECURSIVE parse_statements(_)
parse_statements(text) ==
    IF text = <<>> THEN <<>>
    ELSE IF Head(text) = ";" THEN parse_statements(Tail(text))
    ELSE <<[kind |-> IF Head(text) = "SELECT" THEN "Query"
                     ELSE IF Head(text) = "INSERT" THEN "Insert"
                     ELSE "Eval",
            text |-> Head(text)]>> \o parse_statements(Tail(text))

\* api::v1::greptime_request::Request, with the oneof of a QueryRequest.
GrpcRequests ==
    { [variant |-> v] : v \in { "Inserts", "Deletes", "RowInserts", "RowDeletes", "Ddl" } }
    \cup { [variant |-> "Query", query |-> None] }
    \cup { [variant |-> "Query", query |-> Some([kind |-> "LogicalPlan", plan |-> <<1>>])] }
    \cup { [variant |-> "Query", query |-> Some([kind |-> "Sql", sql |-> text])] :
             text \in SeqsUpTo(SqlTokens, MaxTextLen) }
    \cup { [variant |-> "Query",
            query |-> Some([kind |-> "PromRangeQuery", query |-> text,
                            start |-> "0", end |-> "10", step |-> "5s"])] :
             text \in SeqsUpTo(PromTokens, MaxTextLen) }

\* A faulty translation that exchanges the two ends of the range.
PromQueryOf_swapped_range(promql) ==
    [query |-> promql.query, start |-> promql.end, end |-> promql.start, step |-> promql.step]

\* PromQuery built from the request's PromRangeQuery, field by field.
PromQueryOf(promql) ==
    [query |-> promql.query, start |-> promql.start, end |-> promql.end, step |-> promql.step]

\* The match of GrpcQueryHandler::do_query: the text handler a request goes to,
\* the argument it is given and the text in it, or the panic of unimplemented!()
\* and unwrap().
dispatch(request) ==
    IF request.variant # "Query" THEN Panic
    ELSE IF ~request.query.some THEN Panic
    ELSE IF request.query.v.kind = "Sql"
    THEN Ok([handler |-> "do_query", arg |-> request.query.v.sql,
             text |-> request.query.v.sql])
    ELSE IF request.query.v.kind = "PromRangeQuery"
    THEN Ok([handler |-> "do_promql_query", arg |-> PromQueryOf(request.query.v),
             text |-> PromQueryOf(request.query.v).query])
    ELSE Panic

SqlFeat == "execute multiple statements in SQL query string through GRPC interface"

PromFeat == "execute multiple statements in PromQL query string through GRPC interface"

\* A faulty check that takes the first result of however many there are.
single_result_first(result, feat) ==
    IF Len(result) = 0
    THEN Err([kind |-> "NotSupported", feat |-> feat])
    ELSE result[1]

\* ensure!(result.len() == 1, NotSupportedSnafu { feat }); result.remove(0)?
single_result(result, feat) ==
    IF Len(result) # 1
    THEN Err([kind |-> "NotSupported", feat |-> feat])
    ELSE result[1]

\* What the engine does with one statement: planner().plan, then execute.
EngineOutcomes == { "ok", "plan_failed", "execute_failed" }

\* The engine calls made for statement k, and the statement's Result<Output>.
run_statement(k, outcome) ==
    IF outcome = "plan_failed"
    THEN [events |-> <<[op |-> "plan", stmt |-> k]>>,
          result |-> Err([kind |-> "PlanStatement", stmt |-> k])]
    ELSE [events |-> <<[op |-> "plan", stmt |-> k], [op |-> "execute", stmt |-> k]>>,
          result |-> IF outcome = "ok"
                     THEN Ok([output |-> k])
                     ELSE Err([kind |-> "ExecuteQuery", stmt |-> k])]

\* do_query up to the call of the text handler, which parses the text.
GrpcDoQuery ==
    /\ qpc = "idle"
    /\ \E request \in GrpcRequests :
         /\ qreq' = request
         /\ IF dispatch(request).tag = "Panic"
            THEN /\ qpc' = "done"
                 /\ qout' = Panic
                 /\ qstmts' = <<>>
                 /\ UNCHANGED qarg
            ELSE /\ qpc' = "handler"
                 /\ qarg' = dispatch(request).val.arg
                 /\ qstmts' = parse_statements(dispatch(request).val.text)
                 /\ UNCHANGED qout
    /\ UNCHANGED <<qresults, qevents>>
    /\ UNCHANGED <<cvars, rvars, svars>>

\* The text handler plans and executes its next statement and keeps the result.
HandlerStatement ==
    /\ qpc = "handler"
    /\ Len(qresults) < Len(qstmts)
    /\ \E outcome \in EngineOutcomes :
         LET step == run_statement(Len(qresults) + 1, outcome)
         IN /\ qevents' = qevents \o step.events
            /\ qresults' = Append(qresults, step.result)
    /\ UNCHANGED <<qpc, qreq, qarg, qstmts, qout>>
    /\ UNCHANGED <<cvars, rvars, svars>>

\* The text handler has returned its sequence: do_query's single-result check.
GrpcReturn ==
    /\ qpc = "handler"
    /\ Len(qresults) = Len(qstmts)
    /\ qout' = single_result(qresults,
                             IF dispatch(qreq).val.handler = "do_query"
                             THEN SqlFeat ELSE PromFeat)
    /\ qpc' = "done"
    /\ UNCHANGED <<qreq, qarg, qstmts, qresults, qevents>>
    /\ UNCHANGED <<cvars, rvars, svars>>

\* DummyInstance's do_promql_query is unimplemented!(): with this instance behind
\* the trait the call aborts before it yields any result.
DoPromqlQueryUnimplemented ==
    /\ qpc = "handler"
    /\ dispatch(qreq).val.handler = "do_promql_query"
    /\ qresults = <<>>
    /\ qout' = Panic
    /\ qpc' = "done"
    /\ UNCHANGED <<qreq, qarg, qstmts, qresults, qevents>>
    /\ UNCHANGED <<cvars, rvars, svars>>

\* The statements a caller of the SQL handler can hold, one of each kind.
ParsedStatements == { parse_statements(<<t>>)[1] : t \in SqlTokens \ { ";" } }

\* Which of the unwrap() calls of do_describe meets an Err, if any.
DescribeOutcomes == { "ok", "plan_failed", "describe_failed" }

\* A faulty do_describe that runs the plan to learn its schema.
do_describe_by_execution(stmt, outcome) ==
    IF stmt.kind # "Query" THEN [events |-> <<>>, out |-> Ok(None)]
    ELSE IF outcome = "plan_failed"
    THEN [events |-> <<[op |-> "plan", stmt |-> 1]>>, out |-> Panic]
    ELSE [events |-> <<[op |-> "plan", stmt |-> 1], [op |-> "execute", stmt |-> 1]>>,
          out |-> IF outcome = "ok" THEN Ok(Some([schema |-> stmt.text])) ELSE Panic]

\* SqlQueryHandler::do_describe: a Statement::Query is planned and described,
\* any other statement yields Ok(None); an Err of the engine is unwrapped.
do_describe(stmt, outcome) ==
    IF stmt.kind # "Query" THEN [events |-> <<>>, out |-> Ok(None)]
    ELSE IF outcome = "plan_failed"
    THEN [events |-> <<[op |-> "plan", stmt |-> 1]>>, out |-> Panic]
    ELSE [events |-> <<[op |-> "plan", stmt |-> 1], [op |-> "describe", stmt |-> 1]>>,
          out |-> IF outcome = "ok" THEN Ok(Some([schema |-> stmt.text])) ELSE Panic]

\* One call of do_describe on a parsed statement.
DoDescribe ==
    /\ qpc = "idle"
    /\ \E stmt \in ParsedStatements, outcome \in DescribeOutcomes :
         /\ qreq' = [variant |-> "Describe", stmt |-> stmt]
         /\ qevents' = qevents \o do_describe(stmt, outcome).events
         /\ qout' = do_describe(stmt, outcome).out
    /\ qpc' = "done"
    /\ UNCHANGED <<qarg, qstmts, qresults>>
    /\ UNCHANGED <<cvars, rvars, svars>>

\* The logical plans a caller of do_exec_plan can hand over.
LogicalPlans == { <<1>>, <<2>> }

\* SqlQueryHandler::do_exec_plan: executes the plan it is given, unwrapping.
do_exec_plan(plan, failed) ==
    [events |-> <<[op |-> "execute", stmt |-> 1]>>,
     out |-> IF failed THEN Panic ELSE Ok([output |-> plan])]

\* One call of do_exec_plan on a ready logical plan.
DoExecPlan ==
    /\ qpc = "idle"
    /\ \E plan \in LogicalPlans, failed \in BOOLEAN :
         /\ qreq' = [variant |-> "ExecPlan", plan |-> plan]
         /\ qevents' = qevents \o do_exec_plan(plan, failed).events
         /\ qout' = do_exec_plan(plan, failed).out
    /\ qpc' = "done"
    /\ UNCHANGED <<qarg, qstmts, qresults>>
    /\ UNCHANGED <<cvars, rvars, svars>>

\* Which of the unwrap() calls of DummyInstance's do_query meets an Err, if any.
DoQueryOutcomes == { "ok", "parse_failed", "plan_failed", "execute_failed" }

\* A Vec<Result<Output>> as a returned value.
Vec(items) == [tag |-> "Vec", items |-> items]

\* A faulty do_query that executes the statement as parsed, with no plan step.
SqlQueryHandler_do_query_unplanned(outcome) ==
    IF outcome = "parse_failed" THEN [events |-> <<>>, out |-> Panic]
    ELSE [events |-> <<[op |-> "execute", stmt |-> 1]>>,
          out |-> IF outcome = "ok" THEN Vec(<<Ok([output |-> 1])>>) ELSE Panic]

\* DummyInstance's SqlQueryHandler::do_query: parse_sql, planner().plan and
\* execute, each unwrapped, then a Vec of the one Output.
SqlQueryHandler_do_query(outcome) ==
    IF outcome = "parse_failed" THEN [events |-> <<>>, out |-> Panic]
    ELSE IF outcome = "plan_failed"
    THEN [events |-> <<[op |-> "plan", stmt |-> 1]>>, out |-> Panic]
    ELSE [events |-> <<[op |-> "plan", stmt |-> 1], [op |-> "execute", stmt |-> 1]>>,
          out |-> IF outcome = "ok" THEN Vec(<<Ok([output |-> 1])>>) ELSE Panic]

\* One direct call of DummyInstance's SqlQueryHandler::do_query on a text; a text
\* without a statement cannot be parsed into one.
SqlDoQuery ==
    /\ qpc = "idle"
    /\ \E text \in SeqsUpTo(SqlTokens, MaxTextLen), outcome \in DoQueryOutcomes :
         /\ (parse_statements(text) = <<>> => outcome = "parse_failed")
         /\ qreq' = [variant |-> "SqlDoQuery", sql |-> text]
         /\ qevents' = qevents \o SqlQueryHandler_do_query(outcome).events
         /\ qout' = SqlQueryHandler_do_query(outcome).out
    /\ qpc' = "done"
    /\ UNCHANGED <<qarg, qstmts, qresults>>
    /\ UNCHANGED <<cvars, rvars, svars>>

InitQuery ==
    /\ qpc = "idle"
    /\ qreq = Nil
    /\ qarg = Nil
    /\ qstmts = <<>>
    /\ qresults = <<>>
    /\ qevents = <<>>
    /\ qout = Nil

NextQuery ==
    \/ GrpcDoQuery
    \/ HandlerStatement
    \/ GrpcReturn
    \/ DoPromqlQueryUnimplemented
    \/ DoDescribe
    \/ DoExecPlan
    \/ SqlDoQuery

\* ------------------------------------------------------------ query claims

IsSqlQuery == qreq # Nil /\ qreq.variant = "Query" /\ qreq.query.some /\ qreq.query.v.kind = "Sql"

\* The number of statements written in a text.
StatementCount(text) == Cardinality({ i \in DOMAIN text : text[i] # ";" })

IsPromQuery ==
    qreq # Nil /\ qreq.variant = "Query" /\ qreq.query.some /\ qreq.query.v.kind = "PromRangeQuery"

IsGrpcRequest == qreq \in GrpcRequests

\* C16: GrpcQueryHandler::do_query returns a value for every request variant: no
\* finished call has aborted in unimplemented!(), unwrap() or a default branch.
C16_DispatchTotal ==
    (qpc = "done" /\ IsGrpcRequest) => qout # Panic

\* The calls the engine has seen so far of one operation.
EventsOf(op) == { i \in DOMAIN qevents : qevents[i].op = op }

\* C17: do_describe never executes: a Statement::Query is planned, then described,
\* and its schema returned as Some (unless the engine fails, which aborts the
\* call); any other statement returns Ok(None) with no call on the engine.
C17_DescribeNeverExecutes ==
    (qpc = "done" /\ qreq.variant = "Describe") =>
        /\ EventsOf("execute") = {}
        /\ (qreq.stmt.kind = "Query" =>
              \/ /\ qout = Ok(Some([schema |-> qreq.stmt.text]))
                 /\ qevents = <<[op |-> "plan", stmt |-> 1], [op |-> "describe", stmt |-> 1]>>
              \/ /\ qout = Panic
                 /\ qevents # <<>>
                 /\ qevents[1].op = "plan")
        /\ (qreq.stmt.kind # "Query" =>
              /\ qout = Ok(None)
              /\ qevents = <<>>)

\* A read query was planned and described, and its schema returned.
C17_Witness ==
    /\ qpc = "done"
    /\ qreq.variant = "Describe"
    /\ qreq.stmt.kind = "Query"
    /\ qout = Ok(Some([schema |-> "SELECT"]))
    /\ Len(qevents) = 2

\* Every execute seen by the engine comes after a plan for the same statement.
ExecuteFollowsPlan ==
    \A i \in EventsOf("execute") :
        \E j \in EventsOf("plan") : j < i /\ qevents[j].stmt = qevents[i].stmt

\* C18 as stated: on every path through the handlers, execute is called only
\* after plan has been called and has returned for that same request.
C18_EveryPathPlansBeforeExecute ==
    qreq # Nil => ExecuteFollowsPlan

\* C18 amended: on every handler path that is given a text or a statement,
\* execute is called only after plan returned for that statement; do_exec_plan
\* executes the plan it is handed and never calls plan.
C18_StatementPathsPlanBeforeExecute ==
    qreq # Nil =>
        IF qreq.variant = "ExecPlan"
        THEN EventsOf("plan") = {} /\ (qpc = "done" => Cardinality(EventsOf("execute")) = 1)
        ELSE ExecuteFollowsPlan

\* A direct do_query planned its statement and then executed it.
C18_Witness ==
    /\ qpc = "done"
    /\ qreq.variant = "SqlDoQuery"
    /\ qevents = <<[op |-> "plan", stmt |-> 1], [op |-> "execute", stmt |-> 1]>>
    /\ qout = Vec(<<Ok([output |-> 1])>>)

\* ============================================================= standalone

\* The Standalone commands execute is called on: with and without --user-provider.
StandaloneCommands ==
    [user_provider : { None, Some("static_user_provider:cmd:admin=pw") }]

\* The MixOptions load_options hands to execute.
MixOptionsSet ==
    [data_home : { "/tmp/engram" },
     fe_opts : [http_addr : { "127.0.0.1:4000", "0.0.0.0:4000" },
                grpc_addr : { "127.0.0.1:4001", "0.0.0.0:4001" }],
     dn_opts : [enable_telemetry : BOOLEAN]]

\* A faulty execute that starts the datanode and the frontend and then opens the
\* catalog's table metadata.
ExecuteSteps_init_last ==
    << "load_frontend_plugins", "try_build_standalone_components", "DatanodeBuilder::build",
       "build_frontend", "build_servers", "datanode.start", "frontend.start",
       "table_metadata_manager.init" >>

\* The calls of execute that can fail, in the order of the code.
ExecuteSteps ==
    << "load_frontend_plugins", "try_build_standalone_components", "DatanodeBuilder::build",
       "table_metadata_manager.init", "build_frontend", "build_servers",
       "datanode.start", "frontend.start" >>

\* The error execute returns when a call fails: the callee's own error for `?`
\* alone, the kind of the context(..Snafu) otherwise.
StepError(step) ==
    CASE step = "load_frontend_plugins" -> "LoadFrontendPlugins"
      [] step = "try_build_standalone_components" -> "StartFrontend"
      [] step = "DatanodeBuilder::build" -> "StartDatanode"
      [] step = "table_metadata_manager.init" -> "InitMetadata"
      [] step = "build_frontend" -> "StartFrontend"
      [] step = "build_servers" -> "StartFrontend"
      [] step = "datanode.start" -> "StartDatanode"
      [] step = "frontend.start" -> "StartFrontend"

\* What a call is given of execute's inputs.
StepArg(step, self, opts) ==
    CASE step = "load_frontend_plugins" -> self.user_provider
      [] step = "try_build_standalone_components" -> Some(opts.data_home)
      [] step = "DatanodeBuilder::build" -> Some(opts.dn_opts)
      [] step = "build_servers" -> Some(opts.fe_opts)
      [] OTHER -> None

\* execute is called on a command with the options loaded for it, by a caller
\* other than the engram binary's main.
StandaloneExecute ==
    /\ epc = "idle"
    /\ mpc = "idle"
    /\ opc = "idle"
    /\ \E self \in StandaloneCommands, opts \in MixOptionsSet :
         /\ eself' = self
         /\ eopts' = opts
    /\ epc' = "running"
    /\ UNCHANGED <<ecalls, eout>>
    /\ UNCHANGED <<mvars, ovars>>
    /\ UNCHANGED <<cvars, rvars, qvars>>

\* execute makes its next call and awaits it: on Ok it goes on, on Err the `?`
\* returns the error.
ExecuteStep ==
    /\ epc = "running"
    /\ Len(ecalls) < Len(ExecuteSteps)
    /\ LET step == ExecuteSteps[Len(ecalls) + 1]
       IN \E ok \in BOOLEAN :
            /\ ecalls' = Append(ecalls, [step |-> step, arg |-> StepArg(step, eself, eopts),
                                          ok |-> ok])
            /\ IF ok
               THEN UNCHANGED <<epc, eout>>
               ELSE /\ eout' = Err([kind |-> StepError(step)])
                    /\ epc' = "done"
    /\ UNCHANGED <<eself, eopts>>
    /\ UNCHANGED <<mvars, ovars>>
    /\ UNCHANGED <<cvars, rvars, qvars>>

\* Every call returned Ok: execute returns Ok(()).
ExecuteReturn ==
    /\ epc = "running"
    /\ Len(ecalls) = Len(ExecuteSteps)
    /\ eout' = Ok([unit |-> TRUE])
    /\ epc' = "done"
    /\ UNCHANGED <<eself, eopts, ecalls>>
    /\ UNCHANGED <<mvars, ovars>>
    /\ UNCHANGED <<cvars, rvars, qvars>>

\* ------------------------------------------------------ the engram binary

\* DatanodeOptions::default().rpc_addr: the gRPC address reserved for the datanode.
DatanodeDefaultRpcAddr == "127.0.0.1:3001"

\* The Standalone commands Engram::parse yields.
ParsedStandalones ==
    [http_addr : { None, Some("0.0.0.0:4000") },
     rpc_addr : { None, Some(DatanodeDefaultRpcAddr), Some("0.0.0.0:4001") },
     user_provider : { None, Some("static_user_provider:cmd:admin=pw") }]

\* The REPL commands Engram::parse yields.
REPLs ==
    [grpc_addr : { "127.0.0.1:4001" }, meta_addr : { None }, disable_helper : BOOLEAN]

\* The StandaloneOptions the layers (defaults, config file, environment) give.
LayeredStandaloneOptions ==
    [http_addr : { "127.0.0.1:4000" },
     grpc_addr : { "127.0.0.1:4001", "10.0.0.1:4001" },
     enable_telemetry : BOOLEAN,
     data_home : { "/tmp/engram" }]

\* What Options::load_layered_options returns: the options, or its error when a
\* layer cannot be read.
LayeredResults ==
    { Ok(o) : o \in LayeredStandaloneOptions } \cup { Err([kind |-> "LoadLayeredConfig"]) }

\* The variants of Options the commands produce.
OptionsStandalone(mix) == [variant |-> "Standalone", opts |-> mix]

OptionsCli(logging) == [variant |-> "Cli", opts |-> logging]

\* LoggingOptions::default() with TopLevelOptions::default() applied.
DefaultLogging == [dir |-> "/tmp/engram/logs", level |-> None]

\* A faulty load_options that takes any --rpc-addr as the frontend's address.
Standalone_load_options_unchecked(self, layered) ==
    IF layered.tag = "Err"
    THEN layered
    ELSE LET opts == layered.val
         IN Ok(OptionsStandalone(
                [data_home |-> opts.data_home,
                 fe_opts |-> [http_addr |-> IF self.http_addr.some THEN self.http_addr.v
                                            ELSE opts.http_addr,
                              grpc_addr |-> IF self.rpc_addr.some THEN self.rpc_addr.v
                                            ELSE opts.grpc_addr],
                 dn_opts |-> [enable_telemetry |-> opts.enable_telemetry]]))

\* Standalone::load_options of the subcmd module: the `?` passes a loading error
\* on, the flags override the loaded addresses, and an --rpc-addr equal to the
\* datanode's reserved address is refused.
Standalone_load_options(self, layered) ==
    IF layered.tag = "Err"
    THEN layered
    ELSE LET opts == layered.val
         IN IF self.rpc_addr.some /\ self.rpc_addr.v = DatanodeDefaultRpcAddr
            THEN Err([kind |-> "IllegalConfig"])
            ELSE Ok(OptionsStandalone(
                [data_home |-> opts.data_home,
                 fe_opts |-> [http_addr |-> IF self.http_addr.some THEN self.http_addr.v
                                            ELSE opts.http_addr,
                              grpc_addr |-> IF self.rpc_addr.some THEN self.rpc_addr.v
                                            ELSE opts.grpc_addr],
                 dn_opts |-> [enable_telemetry |-> opts.enable_telemetry]]))

\* A faulty REPL::load_options that hands out standalone options.
REPL_load_options_standalone(self) ==
    Ok(OptionsStandalone([data_home |-> "/tmp/engram",
                          fe_opts |-> [http_addr |-> "127.0.0.1:4000",
                                       grpc_addr |-> self.grpc_addr],
                          dn_opts |-> [enable_telemetry |-> TRUE]]))

\* REPL::load_options: always the logging options, as Options::Cli.
REPL_load_options(self) == Ok(OptionsCli(DefaultLogging))

\* The commands of the engram binary.
Commands ==
    { [variant |-> "Standalone", cmd |-> c] : c \in ParsedStandalones }
        \cup { [variant |-> "REPL", cmd |-> c] : c \in REPLs }

\* Commands::load_options: each variant calls its own command's load_options.
Commands_load_options(self, layered) ==
    IF self.variant = "Standalone"
    THEN Standalone_load_options(self.cmd, layered)
    ELSE REPL_load_options(self.cmd)

\* The arm of the match in Commands::execute that (self, opts) takes.
Commands_execute_arm(self, opts) ==
    CASE self.variant = "Standalone" /\ opts.variant = "Standalone" -> "standalone"
      [] self.variant = "REPL" /\ opts.variant = "Cli" -> "repl"
      [] OTHER -> "unreachable"

\* What REPL::execute returns: Repl::try_new or run can fail.
REPLResults == { Ok([unit |-> TRUE]), Err([kind |-> "ReplCreation"]), Err([kind |-> "Readline"]) }

\* main parses the command line and loads the options of the command; on Err
\* the `?` returns it.
MainLoadOptions ==
    /\ mpc = "idle"
    /\ epc = "idle"
    /\ opc = "idle"
    /\ \E cmd \in Commands, layered \in LayeredResults :
         LET opts == Commands_load_options(cmd, layered)
         IN /\ mcmd' = cmd
            /\ mlayered' = IF cmd.variant = "Standalone" THEN layered ELSE Nil
            /\ mopts' = opts
            /\ IF opts.tag = "Ok"
               THEN mpc' = "loaded" /\ UNCHANGED mout
               ELSE mpc' = "done" /\ mout' = opts
    /\ UNCHANGED <<evars, ovars>>
    /\ UNCHANGED <<cvars, rvars, qvars>>

\* main calls Commands::execute with the loaded options: the match calls the
\* command's execute, or panics in its unreachable!() arm.
MainExecute ==
    /\ mpc = "loaded"
    /\ LET arm == Commands_execute_arm(mcmd, mopts.val)
       IN CASE arm = "standalone" ->
                 /\ mpc' = "standalone"
                 /\ epc' = "running"
                 /\ eself' = mcmd.cmd
                 /\ eopts' = mopts.val.opts
                 /\ UNCHANGED <<ecalls, eout, mout>>
            [] arm = "repl" ->
                 /\ mpc' = "repl"
                 /\ UNCHANGED <<evars, mout>>
            [] OTHER ->
                 /\ mpc' = "done"
                 /\ mout' = Panic
                 /\ UNCHANGED evars
    /\ UNCHANGED <<mcmd, mlayered, mopts, ovars>>
    /\ UNCHANGED <<cvars, rvars, qvars>>

\* REPL::execute returns, and main returns its result.
REPLExecute ==
    /\ mpc = "repl"
    /\ \E r \in REPLResults : mout' = r
    /\ mpc' = "done"
    /\ UNCHANGED <<mcmd, mlayered, mopts, evars, ovars>>
    /\ UNCHANGED <<cvars, rvars, qvars>>

\* Standalone::execute returned, and main returns its result.
MainReturn ==
    /\ mpc = "standalone"
    /\ epc = "done"
    /\ mout' = eout
    /\ mpc' = "done"
    /\ UNCHANGED <<mcmd, mlayered, mopts, evars, ovars>>
    /\ UNCHANGED <<cvars, rvars, qvars>>

\* ---------------------------------- the standalone command of cmd::standalone

\* The Standalone commands of this module.
CmdStandalones ==
    [http_addr : { None, Some("0.0.0.0:4000") },
     rpc_addr : { None, Some(DatanodeDefaultRpcAddr), Some("0.0.0.0:4001") },
     enable_memory_catalog : BOOLEAN]

\* The StandaloneOptions the layers give: here a service's options are optional.
CmdLayeredStandaloneOptions ==
    [http_options : { Some([addr |-> "127.0.0.1:4000"]) },
     grpc_options : { None, Some([addr |-> "127.0.0.1:4001"]) },
     enable_telemetry : BOOLEAN]

\* What Options::load_layered_options returns for this module's options.
CmdLayeredResults ==
    { Ok(o) : o \in CmdLayeredStandaloneOptions } \cup { Err([kind |-> "LoadLayeredConfig"]) }

\* `if let Some(o) = &mut options { o.addr = addr }` under `if let Some(addr) = flag`.
SetAddr(options, flag) ==
    IF flag.some /\ options.some THEN Some([addr |-> flag.v]) ELSE options

\* Standalone::load_options of the cmd module: as in subcmd, but an address is
\* only set in service options that are present.
cmd_Standalone_load_options(self, layered) ==
    IF layered.tag = "Err"
    THEN layered
    ELSE LET opts == layered.val
         IN IF self.rpc_addr.some /\ self.rpc_addr.v = DatanodeDefaultRpcAddr
            THEN Err([kind |-> "IllegalConfig"])
            ELSE Ok(OptionsStandalone(
                [fe_opts |-> [http_options |-> SetAddr(opts.http_options, self.http_addr),
                              grpc_options |-> SetAddr(opts.grpc_options, self.rpc_addr)],
                 dn_opts |-> [enable_memory_catalog |-> self.enable_memory_catalog,
                              enable_telemetry |-> opts.enable_telemetry]]))

\* The calls of build that can fail, in the order of the code, and the error build
\* returns for each.
BuildSteps ==
    << [call |-> "load_frontend_plugins", kind |-> "LoadFrontendPlugins"],
       [call |-> "Datanode::new", kind |-> "StartDatanode"],
       [call |-> "build_frontend", kind |-> "StartFrontend"],
       [call |-> "build_servers", kind |-> "StartFrontend"] >>

\* A faulty start that brings the frontend's services up before the datanode.
InstanceStartSteps_frontend_first ==
    << [call |-> "frontend.start", kind |-> "StartFrontend"],
       [call |-> "datanode.start_instance", kind |-> "StartDatanode"] >>

\* The calls of Instance::start, in the order of the code, with the context of each.
InstanceStartSteps ==
    << [call |-> "datanode.start_instance", kind |-> "StartDatanode"],
       [call |-> "frontend.start", kind |-> "StartFrontend"] >>

\* The calls of Instance::stop, in the order of the code, with the context of each.
InstanceStopSteps ==
    << [call |-> "frontend.shutdown", kind |-> "ShutdownFrontend"],
       [call |-> "datanode.shutdown_instance", kind |-> "ShutdownDatanode"] >>

\* The command's options are loaded.
CmdLoadOptions ==
    /\ opc = "idle"
    /\ epc = "idle"
    /\ mpc = "idle"
    /\ \E cmd \in CmdStandalones, layered \in CmdLayeredResults :
         LET opts == cmd_Standalone_load_options(cmd, layered)
         IN /\ ocmd' = cmd
            /\ olayered' = layered
            /\ oopts' = opts
            /\ opc' = IF opts.tag = "Ok" THEN "loaded" ELSE "done"
    /\ UNCHANGED <<obuilt, ipos, icalls, istart, istop>>
    /\ UNCHANGED <<evars, mvars>>
    /\ UNCHANGED <<cvars, rvars, qvars>>

\* build: the first call that fails ends it with that call's error; with none
\* failing it returns the Instance.
StandaloneBuild ==
    /\ opc = "loaded"
    /\ \E failed \in 0..Len(BuildSteps) :
         IF failed = 0
         THEN obuilt' = Ok([instance |-> oopts.val.opts]) /\ opc' = "built"
         ELSE obuilt' = Err([kind |-> BuildSteps[failed].kind]) /\ opc' = "done"
    /\ UNCHANGED <<ocmd, olayered, oopts, ipos, icalls, istart, istop>>
    /\ UNCHANGED <<evars, mvars>>
    /\ UNCHANGED <<cvars, rvars, qvars>>

\* Instance::start is called on the built Instance.
InstanceStart ==
    /\ opc = "built"
    /\ opc' = "starting"
    /\ ipos' = 0
    /\ UNCHANGED <<ocmd, olayered, oopts, obuilt, icalls, istart, istop>>
    /\ UNCHANGED <<evars, mvars>>
    /\ UNCHANGED <<cvars, rvars, qvars>>

\* start makes its next call and awaits it: on Err the `?` returns the error in
\* the call's context; after the last call start returns Ok(()).
InstanceStartStep ==
    /\ opc = "starting"
    /\ LET step == InstanceStartSteps[ipos + 1]
       IN \E ok \in BOOLEAN :
            /\ icalls' = Append(icalls, [call |-> step.call, ok |-> ok])
            /\ ipos' = ipos + 1
            /\ IF ~ok
               THEN istart' = Err([kind |-> step.kind]) /\ opc' = "started"
               ELSE IF ipos + 1 = Len(InstanceStartSteps)
                    THEN istart' = Ok([unit |-> TRUE]) /\ opc' = "started"
                    ELSE UNCHANGED <<istart, opc>>
    /\ UNCHANGED <<ocmd, olayered, oopts, obuilt, istop>>
    /\ UNCHANGED <<evars, mvars>>
    /\ UNCHANGED <<cvars, rvars, qvars>>

\* Instance::stop is called on an Instance whose start has returned.
InstanceStop ==
    /\ opc = "started"
    /\ opc' = "stopping"
    /\ ipos' = 0
    /\ UNCHANGED <<ocmd, olayered, oopts, obuilt, icalls, istart, istop>>
    /\ UNCHANGED <<evars, mvars>>
    /\ UNCHANGED <<cvars, rvars, qvars>>

\* stop makes its next call and awaits it, as start does.
InstanceStopStep ==
    /\ opc = "stopping"
    /\ LET step == InstanceStopSteps[ipos + 1]
       IN \E ok \in BOOLEAN :
            /\ icalls' = Append(icalls, [call |-> step.call, ok |-> ok])
            /\ ipos' = ipos + 1
            /\ IF ~ok
               THEN istop' = Err([kind |-> step.kind]) /\ opc' = "stopped"
               ELSE IF ipos + 1 = Len(InstanceStopSteps)
                    THEN istop' = Ok([unit |-> TRUE]) /\ opc' = "stopped"
                    ELSE UNCHANGED <<istop, opc>>
    /\ UNCHANGED <<ocmd, olayered, oopts, obuilt, istart>>
    /\ UNCHANGED <<evars, mvars>>
    /\ UNCHANGED <<cvars, rvars, qvars>>

InitStandalone ==
    /\ epc = "idle"
    /\ eself = Nil
    /\ eopts = Nil
    /\ ecalls = <<>>
    /\ eout = Nil
    /\ mpc = "idle"
    /\ mcmd = Nil
    /\ mlayered = Nil
    /\ mopts = Nil
    /\ mout = Nil
    /\ opc = "idle"
    /\ ocmd = Nil
    /\ olayered = Nil
    /\ oopts = Nil
    /\ obuilt = Nil
    /\ ipos = 0
    /\ icalls = <<>>
    /\ istart = Nil
    /\ istop = Nil

NextStandalone ==
    \/ StandaloneExecute
    \/ ExecuteStep
    \/ ExecuteReturn
    \/ MainLoadOptions
    \/ MainExecute
    \/ REPLExecute
    \/ MainReturn
    \/ CmdLoadOptions
    \/ StandaloneBuild
    \/ InstanceStart
    \/ InstanceStartStep
    \/ InstanceStop
    \/ InstanceStopStep

\* ------------------------------------------------------- standalone claims

\* The positions at which execute called a step.
CallsOf(step) == { i \in DOMAIN ecalls : ecalls[i].step = step }

\* The steps that build or start what serves requests.
AfterInit == { "build_frontend", "build_servers", "datanode.start", "frontend.start" }

\* C25: in Standalone::execute the table metadata manager's init has returned Ok
\* before the frontend is built, before the servers are built and before
\* datanode.start and frontend.start are called; when init fails, execute returns
\* InitMetadata and none of these calls is made.
C25_InitBeforeStart ==
    /\ \A i \in DOMAIN ecalls :
          ecalls[i].step \in AfterInit =>
              \E j \in CallsOf("table_metadata_manager.init") : j < i /\ ecalls[j].ok
    /\ \A j \in CallsOf("table_metadata_manager.init") :
          ~ecalls[j].ok =>
              /\ j = Len(ecalls)
              /\ epc = "done"
              /\ eout = Err([kind |-> "InitMetadata"])
    /\ (eout = Ok([unit |-> TRUE]) =>
          \A step \in AfterInit : \E i \in CallsOf(step) : ecalls[i].ok)

\* The catalog could not be opened: execute stopped with nothing started.
C25_Witness ==
    /\ epc = "done"
    /\ eout = Err([kind |-> "InitMetadata"])
    /\ Len(ecalls) = 4
    /\ CallsOf("datanode.start") = {}
    /\ CallsOf("frontend.start") = {}

\* The positions at which start or stop made a call on the Instance.
InstanceCallsOf(call) == { i \in DOMAIN icalls : icalls[i].call = call }

\* C31: Instance::start starts the datanode instance before the frontend's
\* services, and when starting the datanode fails the frontend is never started;
\* Instance::stop shuts the frontend down first and the datanode after it, and
\* when the frontend's shutdown fails the datanode's shutdown is not attempted.
C31_StartStopOrder ==
    /\ \A i \in InstanceCallsOf("frontend.start") :
          \E j \in InstanceCallsOf("datanode.start_instance") : j < i /\ icalls[j].ok
    /\ \A j \in InstanceCallsOf("datanode.start_instance") :
          ~icalls[j].ok =>
              /\ InstanceCallsOf("frontend.start") = {}
              /\ istart = Err([kind |-> "StartDatanode"])
    /\ \A i \in InstanceCallsOf("datanode.shutdown_instance") :
          \E j \in InstanceCallsOf("frontend.shutdown") : j < i /\ icalls[j].ok
    /\ \A j \in InstanceCallsOf("frontend.shutdown") :
          ~icalls[j].ok =>
              /\ InstanceCallsOf("datanode.shutdown_instance") = {}
              /\ istop = Err([kind |-> "ShutdownFrontend"])
    /\ (istart = Ok([unit |-> TRUE]) =>
          \A c \in { "datanode.start_instance", "frontend.start" } :
              \E i \in InstanceCallsOf(c) : icalls[i].ok)
    /\ (istop = Ok([unit |-> TRUE]) =>
          \A c \in { "frontend.shutdown", "datanode.shutdown_instance" } :
              \E i \in InstanceCallsOf(c) : icalls[i].ok)

\* An Instance was started and stopped with every call succeeding.
C31_Witness ==
    /\ opc = "stopped"
    /\ istart = Ok([unit |-> TRUE])
    /\ istop = Ok([unit |-> TRUE])
    /\ icalls = << [call |-> "datanode.start_instance", ok |-> TRUE],
                   [call |-> "frontend.start", ok |-> TRUE],
                   [call |-> "frontend.shutdown", ok |-> TRUE],
                   [call |-> "datanode.shutdown_instance", ok |-> TRUE] >>

\* The --rpc-addr of the Standalone command main loaded options for.
MainRpcAddr == mcmd.cmd.rpc_addr

\* main loaded the options of a Standalone command given an --rpc-addr.
MainLoadedWithRpcAddr ==
    mcmd # Nil /\ mcmd.variant = "Standalone" /\ MainRpcAddr.some

\* The cmd module's load_options ran on a command given an --rpc-addr.
CmdLoadedWithRpcAddr == ocmd # Nil /\ ocmd.rpc_addr.some

\* C32 as stated: Standalone::load_options fails with IllegalConfig, producing no
\* Options, whenever --rpc-addr equals the datanode's reserved gRPC address; for
\* any other rpc address it succeeds and the frontend's gRPC address in the
\* result is the given one.
C32_RpcAddrDecidesLoadOptions ==
    /\ MainLoadedWithRpcAddr =>
          IF MainRpcAddr.v = DatanodeDefaultRpcAddr
          THEN mopts = Err([kind |-> "IllegalConfig"])
          ELSE /\ mopts.tag = "Ok"
               /\ mopts.val.variant = "Standalone"
               /\ mopts.val.opts.fe_opts.grpc_addr = MainRpcAddr.v
    /\ CmdLoadedWithRpcAddr =>
          IF ocmd.rpc_addr.v = DatanodeDefaultRpcAddr
          THEN oopts = Err([kind |-> "IllegalConfig"])
          ELSE /\ oopts.tag = "Ok"
               /\ oopts.val.variant = "Standalone"
               /\ oopts.val.opts.fe_opts.grpc_options = Some([addr |-> ocmd.rpc_addr.v])

\* C32, amended: when load_layered_options fails, load_options fails with its
\* error whatever the --rpc-addr; when it succeeds, load_options fails with
\* IllegalConfig, producing no Options, if --rpc-addr equals the datanode's
\* reserved gRPC address, and for any other rpc address succeeds with the given
\* address as the frontend's gRPC address; in the cmd module the address is
\* set only when the loaded options have gRPC options, which stay absent
\* otherwise.
C32_RpcAddrDecidesLoadedOptions ==
    /\ MainLoadedWithRpcAddr =>
          CASE mlayered.tag = "Err" -> mopts = mlayered
            [] MainRpcAddr.v = DatanodeDefaultRpcAddr ->
                 mopts = Err([kind |-> "IllegalConfig"])
            [] OTHER ->
                 /\ mopts.tag = "Ok"
                 /\ mopts.val.variant = "Standalone"
                 /\ mopts.val.opts.fe_opts.grpc_addr = MainRpcAddr.v
    /\ CmdLoadedWithRpcAddr =>
          CASE olayered.tag = "Err" -> oopts = olayered
            [] ocmd.rpc_addr.v = DatanodeDefaultRpcAddr ->
                 oopts = Err([kind |-> "IllegalConfig"])
            [] OTHER ->
                 /\ oopts.tag = "Ok"
                 /\ oopts.val.variant = "Standalone"
                 /\ oopts.val.opts.fe_opts.grpc_options =
                        IF olayered.val.grpc_options.some
                        THEN Some([addr |-> ocmd.rpc_addr.v])
                        ELSE None

\* The engram binary was given the reserved address and main returned
\* IllegalConfig without calling execute.
C32_Witness ==
    /\ mpc = "done"
    /\ MainLoadedWithRpcAddr
    /\ MainRpcAddr.v = DatanodeDefaultRpcAddr
    /\ mlayered.tag = "Ok"
    /\ mopts = Err([kind |-> "IllegalConfig"])
    /\ mout = mopts
    /\ epc = "idle"

\* C33: in the engram binary the Options passed to Commands::execute match the
\* command: load_options of a Standalone command yields only Options::Standalone,
\* load_options of a REPL command only Options::Cli, and no run of main reaches
\* the unreachable!() arm of Commands::execute; when load_options fails, execute
\* is not called.
C33_OptionsMatchCommand ==
    /\ (mopts # Nil /\ mopts.tag = "Ok") =>
          /\ mopts.val.variant = (IF mcmd.variant = "Standalone" THEN "Standalone" ELSE "Cli")
          /\ Commands_execute_arm(mcmd, mopts.val) # "unreachable"
    /\ mout # Panic
    /\ mpc = "standalone" => (mcmd.variant = "Standalone" /\ eopts = mopts.val.opts)
    /\ mpc = "repl" => mcmd.variant = "REPL"
    /\ (mopts # Nil /\ mopts.tag = "Err") => (mpc = "done" /\ mout = mopts /\ epc = "idle")

\* main ran a REPL command with the Cli options loaded for it.
C33_Witness ==
    /\ mpc = "done"
    /\ mcmd.variant = "REPL"
    /\ mopts = Ok(OptionsCli(DefaultLogging))
    /\ mout = Ok([unit |-> TRUE])

\* ================================================================== whole

Init == InitClient /\ InitRegion /\ InitQuery /\ InitStandalone

Next == NextClient \/ NextRegion \/ NextQuery \/ NextStandalone

SpecClient == Init /\ [][NextClient]_vars

SpecRegion == Init /\ [][NextRegion]_vars

\* The runtime polls every spawned task, and a handler invocation ends.
FairRegion ==
    \A r \in Reqs : WF_vars(TaskStart(r)) /\ WF_vars(TaskFinish(r) \/ TaskPanic(r))

SpecRegionFair == SpecRegion /\ FairRegion

SpecQuery == Init /\ [][NextQuery]_vars

SpecStandalone == Init /\ [][NextStandalone]_vars

Spec == Init /\ [][Next]_vars

====
